---- MODULE Spec2Model ----
(***************************************************************************)
(* Model of extractBankStatementData (src/index.js): the text recovered    *)
(* from a bank statement is trimmed, split into lines, and folded line by  *)
(* line into a list of debit transactions.  Strings are modelled as        *)
(* strings; objects live in a heap so that the references held by          *)
(* `transactions` and `currentTransaction` alias as they do in JavaScript. *)
(***************************************************************************)
EXTENDS Integers, Sequences, FiniteSets, TLC

VARIABLES pc, lines, idx, heap, transactions, currentTransaction,
          inTransaction, pushLog, result,
          text, calls,            \* the text being extracted, the finished calls
          disk, upload,           \* uploaded files by path, POST /api/upload requests
          csv, api, uuids         \* expenses.csv, /api/expenses requests, ids issued

uploadVars == <<disk, upload>>

storeVars == <<csv, api, uuids>>

vars == <<pc, lines, idx, heap, transactions, currentTransaction,
          inTransaction, pushLog, result, text, calls, disk, upload,
          csv, api, uuids>>

\* ------------------------------------------------------------------------
\* Bounds and the inputs drawn from them
\* ------------------------------------------------------------------------

\* largest number of raw lines joined into one extracted text
MaxLines == 4

\* raw lines a statement text is assembled from
RawLines ==
    { "01-02-2023 SHOP  A", "02-02-2023", "45.50", "20", "DR", "CR ",
      " UPI\tREF", "" }

\* calls of extractBankStatementData made one after the other
MaxCalls == 3

\* reasons for which pdf(dataBuffer) rejects
PdfErrors == { "InvalidPDFException", "PasswordException" }

\* ------------------------------------------------------------------------
\* String functions
\* ------------------------------------------------------------------------

CharAt(s, i) == SubSeq(s, i, i)

\* the characters /\s/ matches, among those that occur in the inputs
IsSpace(c) == c \in {" ", "\t", "\n"}

\* the characters /\d/ matches
IsDigit(c) == c \in {"0", "1", "2", "3", "4", "5", "6", "7", "8", "9"}

RECURSIVE TrimStart(_)
TrimStart(s) ==
    IF Len(s) > 0 /\ IsSpace(CharAt(s, 1)) THEN TrimStart(Tail(s)) ELSE s

RECURSIVE TrimEnd(_)
TrimEnd(s) ==
    IF Len(s) > 0 /\ IsSpace(CharAt(s, Len(s)))
    THEN TrimEnd(SubSeq(s, 1, Len(s) - 1))
    ELSE s

\* String.prototype.trim
Trim(s) == TrimEnd(TrimStart(s))

\* String.prototype.split('\n')
RECURSIVE SplitFrom(_, _)
SplitFrom(s, cur) ==
    IF Len(s) = 0 THEN <<cur>>
    ELSE IF CharAt(s, 1) = "\n" THEN <<cur>> \o SplitFrom(Tail(s), "")
    ELSE SplitFrom(Tail(s), cur \o CharAt(s, 1))

Split(s) == SplitFrom(s, "")

\* line.replace(/\s+/g, ' ')
RECURSIVE CollapseSpace(_, _)
CollapseSpace(s, inRun) ==
    IF Len(s) = 0 THEN ""
    ELSE IF IsSpace(CharAt(s, 1))
         THEN (IF inRun THEN "" ELSE " ") \o CollapseSpace(Tail(s), TRUE)
         ELSE CharAt(s, 1) \o CollapseSpace(Tail(s), FALSE)

\* line.replace(/\s+/g, ' ').trim()
Normalize(line) == Trim(CollapseSpace(line, FALSE))

\* String.prototype.slice(from, to) and slice(from), zero-based as in the source
Slice(s, from, to) == SubSeq(s, from + 1, IF to < Len(s) THEN to ELSE Len(s))
SliceFrom(s, from) == SubSeq(s, from + 1, Len(s))

AllDigits(s) == \A i \in 1..Len(s) : IsDigit(CharAt(s, i))

\* datePattern = /^\d{2}-\d{2}-\d{4}/
datePattern(s) ==
    /\ Len(s) >= 10
    /\ \A i \in {1, 2, 4, 5, 7, 8, 9, 10} : IsDigit(CharAt(s, i))
    /\ CharAt(s, 3) = "-"
    /\ CharAt(s, 6) = "-"

\* amountPattern = /^\d+(\.\d{2})?$/
amountPattern(s) ==
    \/ Len(s) >= 1 /\ AllDigits(s)
    \/ /\ Len(s) >= 4
       /\ CharAt(s, Len(s) - 2) = "."
       /\ AllDigits(SubSeq(s, 1, Len(s) - 3))
       /\ AllDigits(SubSeq(s, Len(s) - 1, Len(s)))

\* typePattern = /^(DR|CR)$/
typePattern(s) == s \in {"DR", "CR"}

\* ------------------------------------------------------------------------
\* The extracted texts
\* ------------------------------------------------------------------------

RECURSIVE Join(_)
Join(ls) ==
    IF Len(ls) = 0 THEN ""
    ELSE IF Len(ls) = 1 THEN ls[1]
    ELSE ls[1] \o "\n" \o Join(Tail(ls))

Texts ==
    { Join(ls) : ls \in UNION { [1..n -> RawLines] : n \in 0..MaxLines } }

\* the texts extracted when several calls are made
CallTexts ==
    { "",
      "01-02-2023 SHOP  A\n45.50\n UPI\tREF\nDR",
      "02-02-2023\n20\nDR\n01-02-2023 SHOP  A\nDR",
      "02-02-2023\n20\nCR ",
      "45.50\nDR",
      "01-02-2023 SHOP  A\n UPI\tREF" }

\* ------------------------------------------------------------------------
\* Objects
\* ------------------------------------------------------------------------

EmptyTransaction == [Date |-> "", Description |-> "", Amount |-> "", Type |-> ""]

\* the records the array `transactions` refers to, in order
Output == [k \in 1..Len(transactions) |-> heap[transactions[k]]]

\* Array.prototype.unshift in the place of push
Unshift(arr, x) == <<x>> \o arr

\* Array.prototype.push
Push(arr, x) == Append(arr, x)

\* no object allocated: the current one stays the current one
KeepObject(h, cur, rec) == [heap |-> h, ref |-> cur]

\* the fields of the current object reset in place, no fresh object
OverwriteObject(h, cur, rec) == [heap |-> [h EXCEPT ![cur] = rec], ref |-> cur]

\* currentTransaction = { ... }: a fresh object, the old one is left as it is
NewObject(h, cur, rec) == [heap |-> Append(h, rec), ref |-> Len(h) + 1]

\* the amount kept from the first amount line of a draft
SetAmountIfEmpty(t, tok) == IF t.Amount = "" THEN [t EXCEPT !.Amount = tok] ELSE t

\* currentTransaction.Amount = normalizedLine
SetAmount(t, tok) == [t EXCEPT !.Amount = tok]

\* the text appended without the separating space
AppendDescriptionNoSpace(t, txt) == [t EXCEPT !.Description = @ \o txt]

\* currentTransaction.Description += ' ' + normalizedLine
AppendDescription(t, txt) == [t EXCEPT !.Description = @ \o " " \o txt]

\* ------------------------------------------------------------------------
\* Requests
\* ------------------------------------------------------------------------

\* concurrent POST /api/upload requests
MaxUploads == 2

UploadRequests == 1..MaxUploads

\* pdfFile.name of an uploaded file
FileNames == { "statement.pdf", "march.pdf" }

\* the documents uploaded, each given by the text pdf-parse recovers from it
Documents == { "01-02-2023 SHOP  A\n45.50\nDR", "02-02-2023\n UPI\tREF\nDR" }

NoUpload == [pc |-> "new", name |-> "", doc |-> "", buffer |-> "",
             cause |-> "", status |-> 0, body |-> <<>>, message |-> ""]

\* concurrent requests on /api/expenses
MaxApiRequests == 3

ApiRequests == 1..MaxApiRequests

\* req.body.amount of a POST /api/expenses
Amounts == { 0, 12 }

NoApiRequest == [pc |-> "new", kind |-> "", id |-> 0, amount |-> 0,
                 expenses |-> <<>>, status |-> 0]

\* ------------------------------------------------------------------------
\* Initial state: extractBankStatementData awaits pdf(dataBuffer)
\* ------------------------------------------------------------------------

Init ==
    /\ pc = "pdf"
    /\ lines = <<>>
    /\ idx = 0
    /\ heap = <<>>
    /\ transactions = <<>>
    /\ currentTransaction = 0
    /\ inTransaction = FALSE
    /\ pushLog = <<>>
    /\ result = <<>>
    /\ text = ""
    /\ calls = <<>>
    /\ disk = [n \in FileNames |-> ""]
    /\ upload = [r \in UploadRequests |-> NoUpload]
    /\ csv = <<>>
    /\ api = [r \in ApiRequests |-> NoApiRequest]
    /\ uuids = 0

\* an array kept from one call to the next
SharedTransactions(prev) == prev

\* const transactions = []: a new array in every call
LocalTransactions(prev) == <<>>

\* pdf(dataBuffer) resolves with text t: trim, split, set up the accumulator
ResolveWith(t) ==
    /\ pc = "pdf"
    /\ text' = t
    /\ lines' = Split(Trim(t))
    /\ heap' = Append(heap, EmptyTransaction)
    /\ currentTransaction' = Len(heap) + 1
    /\ transactions' = LocalTransactions(transactions)
    /\ inTransaction' = FALSE
    /\ idx' = 0
    /\ pushLog' = <<>>
    /\ pc' = "forEach"
    /\ UNCHANGED <<result, calls>>

PdfResolve ==
    /\ pc = "pdf"
    /\ \E t \in Texts : ResolveWith(t)
    /\ UNCHANGED <<uploadVars, storeVars>>

\* the error rethrown as a new, generic one
RethrowGeneric(e) == "Error"

\* catch (error) { console.error(...); throw error; }
Rethrow(e) == e

\* pdf(dataBuffer) rejects with e: the catch block logs and rethrows
RejectWith(e) ==
    /\ pc = "pdf"
    /\ pc' = "thrown"
    /\ calls' = Append(calls, [text |-> "", outcome |-> "thrown", cause |-> e,
                               error |-> Rethrow(e), result |-> <<>>])
    /\ UNCHANGED <<lines, idx, heap, transactions, currentTransaction,
                   inTransaction, pushLog, result, text>>

PdfReject ==
    /\ pc = "pdf"
    /\ \E e \in PdfErrors : RejectWith(e)
    /\ UNCHANGED <<uploadVars, storeVars>>

\* ------------------------------------------------------------------------
\* One iteration of lines.forEach
\* ------------------------------------------------------------------------

InLoop == pc = "forEach" /\ idx < Len(lines)

normalizedLine == Normalize(lines[idx + 1])

\* an interrupted draft pushed whatever its type
DatePushCondAnyType == inTransaction

\* inTransaction && currentTransaction.Type === "DR"  (on a date line)
DatePushCond == inTransaction /\ heap[currentTransaction].Type = "DR"

\* a typed draft pushed whatever its type
TypePushCondAnyType(t) == t.Type \in {"DR", "CR"}

\* currentTransaction.Type === "DR"  (on a type line)
TypePushCond(t) == t.Type = "DR"

\* inTransaction left set after a type line
InTransactionKept == TRUE

\* inTransaction = false  (after a type line)
InTransactionAfterType == FALSE

\* whatever is current pushed after the loop
FlushCondAlways == TRUE

\* a trailing draft pushed whatever its type
FlushCondAnyType == inTransaction

\* inTransaction && currentTransaction.Type === "DR"  (after the loop)
FlushCond == inTransaction /\ heap[currentTransaction].Type = "DR"

LogPush(ref) == Append(pushLog, [ref |-> ref, at |-> idx + 1])

DateLine ==
    /\ InLoop
    /\ datePattern(normalizedLine)
    /\ transactions' = IF DatePushCond
                       THEN Push(transactions, currentTransaction)
                       ELSE transactions
    /\ pushLog' = IF DatePushCond THEN LogPush(currentTransaction) ELSE pushLog
    /\ LET o == NewObject(heap, currentTransaction,
                          [Date        |-> Slice(normalizedLine, 0, 10),
                           Description |-> Trim(SliceFrom(normalizedLine, 10)),
                           Amount      |-> "",
                           Type        |-> ""])
       IN /\ heap' = o.heap
          /\ currentTransaction' = o.ref
    /\ inTransaction' = TRUE
    /\ idx' = idx + 1
    /\ UNCHANGED <<pc, lines, result, text, calls, uploadVars, storeVars>>

AmountLine ==
    /\ InLoop
    /\ ~datePattern(normalizedLine)
    /\ amountPattern(normalizedLine)
    /\ heap' = [heap EXCEPT ![currentTransaction] = SetAmount(@, normalizedLine)]
    /\ idx' = idx + 1
    /\ UNCHANGED <<pc, lines, transactions, currentTransaction,
                   inTransaction, pushLog, result, text, calls,
                   uploadVars, storeVars>>

TypeLine ==
    /\ InLoop
    /\ ~datePattern(normalizedLine)
    /\ ~amountPattern(normalizedLine)
    /\ typePattern(normalizedLine)
    /\ LET typed == [heap EXCEPT ![currentTransaction].Type = normalizedLine]
           push  == TypePushCond(typed[currentTransaction])
           o     == NewObject(typed, currentTransaction, EmptyTransaction)
       IN /\ transactions' = IF push
                             THEN Push(transactions, currentTransaction)
                             ELSE transactions
          /\ pushLog' = IF push THEN LogPush(currentTransaction) ELSE pushLog
          /\ heap' = o.heap
          /\ currentTransaction' = o.ref
    /\ inTransaction' = InTransactionAfterType
    /\ idx' = idx + 1
    /\ UNCHANGED <<pc, lines, result, text, calls, uploadVars, storeVars>>

ContinuationLine ==
    /\ InLoop
    /\ ~datePattern(normalizedLine)
    /\ ~amountPattern(normalizedLine)
    /\ ~typePattern(normalizedLine)
    /\ heap' = IF inTransaction
               THEN [heap EXCEPT ![currentTransaction] =
                                     AppendDescription(@, normalizedLine)]
               ELSE heap
    /\ idx' = idx + 1
    /\ UNCHANGED <<pc, lines, transactions, currentTransaction,
                   inTransaction, pushLog, result, text, calls,
                   uploadVars, storeVars>>

\* after the loop: the final flush, then return transactions
Return ==
    /\ pc = "forEach"
    /\ idx = Len(lines)
    /\ transactions' = IF FlushCond
                       THEN Push(transactions, currentTransaction)
                       ELSE transactions
    /\ pushLog' = IF FlushCond THEN LogPush(currentTransaction) ELSE pushLog
    /\ result' = [k \in 1..Len(transactions') |-> heap[transactions'[k]]]
    /\ pc' = "returned"
    /\ calls' = Append(calls, [text |-> text, outcome |-> "returned",
                               cause |-> "", error |-> "", result |-> result'])
    /\ UNCHANGED <<lines, idx, heap, currentTransaction, inTransaction, text,
                   uploadVars, storeVars>>

Next ==
    \/ PdfResolve
    \/ PdfReject
    \/ DateLine
    \/ AmountLine
    \/ TypeLine
    \/ ContinuationLine
    \/ Return

Spec == Init /\ [][Next]_vars

\* ------------------------------------------------------------------------
\* Several calls, one after the other
\* ------------------------------------------------------------------------

PdfResolveCall ==
    /\ pc = "pdf"
    /\ \E t \in CallTexts : ResolveWith(t)
    /\ UNCHANGED <<uploadVars, storeVars>>

\* the caller invokes extractBankStatementData again
NextCall ==
    /\ pc \in {"returned", "thrown"}
    /\ Len(calls) < MaxCalls
    /\ pc' = "pdf"
    /\ UNCHANGED <<lines, idx, heap, transactions, currentTransaction,
                   inTransaction, pushLog, result, text, calls,
                   uploadVars, storeVars>>

NextCalls ==
    \/ PdfResolveCall
    \/ PdfReject
    \/ DateLine
    \/ AmountLine
    \/ TypeLine
    \/ ContinuationLine
    \/ Return
    \/ NextCall

SpecCalls == Init /\ [][NextCalls]_vars

\* ------------------------------------------------------------------------
\* POST /api/upload.  A handler runs until its next await; the extraction
\* between the resolution of pdf(dataBuffer) and the return has no await,
\* so the handlers take their steps while no extraction is in its loop.
\* ------------------------------------------------------------------------

\* !req.files || !req.files.pdf: 400
UploadNoFile(r) ==
    /\ pc = "pdf"
    /\ upload[r].pc = "new"
    /\ upload' = [upload EXCEPT ![r].pc = "done", ![r].status = 400,
                                ![r].message = "No PDF file uploaded."]
    /\ UNCHANGED <<pc, lines, idx, heap, transactions, currentTransaction,
                   inTransaction, pushLog, result, text, calls, disk, storeVars>>

\* a file arrives; uploadPath = path.join(__dirname, pdfFile.name); mv starts
UploadReceive(r) ==
    /\ pc = "pdf"
    /\ upload[r].pc = "new"
    /\ \E n \in FileNames, d \in Documents :
          upload' = [upload EXCEPT ![r].pc = "mv", ![r].name = n, ![r].doc = d]
    /\ UNCHANGED <<pc, lines, idx, heap, transactions, currentTransaction,
                   inTransaction, pushLog, result, text, calls, disk, storeVars>>

\* pdfFile.mv(uploadPath) writes the file
MvWrite(r) ==
    /\ pc = "pdf"
    /\ upload[r].pc = "mv"
    /\ disk' = [disk EXCEPT ![upload[r].name] = upload[r].doc]
    /\ upload' = [upload EXCEPT ![r].pc = "moved"]
    /\ UNCHANGED <<pc, lines, idx, heap, transactions, currentTransaction,
                   inTransaction, pushLog, result, text, calls, storeVars>>

\* pdfFile.mv(uploadPath) rejects: 500
MvFail(r) ==
    /\ pc = "pdf"
    /\ upload[r].pc = "mv"
    /\ upload' = [upload EXCEPT ![r].pc = "done", ![r].status = 500,
                                ![r].message = "Error processing PDF."]
    /\ UNCHANGED <<pc, lines, idx, heap, transactions, currentTransaction,
                   inTransaction, pushLog, result, text, calls, disk, storeVars>>

\* the handler resumes after await mv: extractBankStatementData(uploadPath)
\* reads the file at uploadPath and calls pdf(dataBuffer)
UploadRead(r) ==
    /\ pc = "pdf"
    /\ upload[r].pc = "moved"
    /\ upload' = [upload EXCEPT ![r].pc = "pdf",
                                ![r].buffer = disk[upload[r].name]]
    /\ UNCHANGED <<pc, lines, idx, heap, transactions, currentTransaction,
                   inTransaction, pushLog, result, text, calls, disk, storeVars>>

\* pdf(dataBuffer) resolves with the text of the buffer that was read
UploadPdfResolve(r) ==
    /\ upload[r].pc = "pdf"
    /\ ResolveWith(upload[r].buffer)
    /\ upload' = [upload EXCEPT ![r].pc = "extract"]
    /\ UNCHANGED <<disk, storeVars>>

\* pdf(dataBuffer) rejects
UploadPdfReject(r) ==
    /\ upload[r].pc = "pdf"
    /\ \E e \in PdfErrors :
          /\ RejectWith(e)
          /\ upload' = [upload EXCEPT ![r].pc = "extract", ![r].cause = e]
    /\ UNCHANGED <<disk, storeVars>>

\* res.json(result)
UploadRespond(r) ==
    /\ upload[r].pc = "extract"
    /\ pc = "returned"
    /\ upload' = [upload EXCEPT ![r].pc = "done", ![r].status = 200,
                                ![r].body = result]
    /\ pc' = "pdf"
    /\ UNCHANGED <<lines, idx, heap, transactions, currentTransaction,
                   inTransaction, pushLog, result, text, calls, disk, storeVars>>

\* catch (err): res.status(500).send('Error processing PDF.')
UploadFail(r) ==
    /\ upload[r].pc = "extract"
    /\ pc = "thrown"
    /\ upload' = [upload EXCEPT ![r].pc = "done", ![r].status = 500,
                                ![r].message = "Error processing PDF."]
    /\ pc' = "pdf"
    /\ UNCHANGED <<lines, idx, heap, transactions, currentTransaction,
                   inTransaction, pushLog, result, text, calls, disk, storeVars>>

NextUpload ==
    \/ \E r \in UploadRequests : UploadNoFile(r)
    \/ \E r \in UploadRequests : UploadReceive(r)
    \/ \E r \in UploadRequests : MvWrite(r)
    \/ \E r \in UploadRequests : MvFail(r)
    \/ \E r \in UploadRequests : UploadRead(r)
    \/ \E r \in UploadRequests : UploadPdfResolve(r)
    \/ \E r \in UploadRequests : UploadPdfReject(r)
    \/ DateLine
    \/ AmountLine
    \/ TypeLine
    \/ ContinuationLine
    \/ Return
    \/ \E r \in UploadRequests : UploadRespond(r)
    \/ \E r \in UploadRequests : UploadFail(r)

SpecUpload == Init /\ [][NextUpload]_vars

\* ------------------------------------------------------------------------
\* /api/expenses.  expenses.csv holds the rows below its header line; a
\* handler reads all rows, changes its copy and writes the whole file back.
\* ------------------------------------------------------------------------

\* the validation of POST /api/expenses fails: 400
PostInvalid(r) ==
    /\ api[r].pc = "new"
    /\ \E a \in Amounts :
          /\ a <= 0
          /\ api' = [api EXCEPT ![r].pc = "done", ![r].kind = "POST",
                                ![r].amount = a, ![r].status = 400]
    /\ UNCHANGED <<pc, lines, idx, heap, transactions, currentTransaction,
                   inTransaction, pushLog, result, text, calls, uploadVars,
                   csv, uuids>>

\* POST /api/expenses: newExpense gets its uuid, readExpensesFromCSV starts
PostAccept(r) ==
    /\ api[r].pc = "new"
    /\ \E a \in Amounts :
          /\ a > 0
          /\ api' = [api EXCEPT ![r].pc = "read", ![r].kind = "POST",
                                ![r].amount = a, ![r].id = uuids + 1]
    /\ uuids' = uuids + 1
    /\ UNCHANGED <<pc, lines, idx, heap, transactions, currentTransaction,
                   inTransaction, pushLog, result, text, calls, uploadVars, csv>>

\* DELETE /api/expenses/:id: readExpensesFromCSV starts
DeleteReceive(r) ==
    /\ api[r].pc = "new"
    /\ \E i \in 1..MaxApiRequests :
          api' = [api EXCEPT ![r].pc = "read", ![r].kind = "DELETE", ![r].id = i]
    /\ UNCHANGED <<pc, lines, idx, heap, transactions, currentTransaction,
                   inTransaction, pushLog, result, text, calls, uploadVars,
                   csv, uuids>>

\* POST: the rows are read, expenses.push(newExpense), writeExpensesToCSV starts
PostRead(r) ==
    /\ api[r].pc = "read"
    /\ api[r].kind = "POST"
    /\ api' = [api EXCEPT ![r].pc = "open",
                          ![r].expenses = Append(csv, [id     |-> api[r].id,
                                                       amount |-> api[r].amount])]
    /\ UNCHANGED <<pc, lines, idx, heap, transactions, currentTransaction,
                   inTransaction, pushLog, result, text, calls, uploadVars,
                   csv, uuids>>

\* expenses.filter(expense => expense.id !== expenseIdToDelete)
Without(rows, i) == SelectSeq(rows, LAMBDA e : e.id # i)

\* DELETE: the rows are read and filtered; 404 when none was removed,
\* otherwise writeExpensesToCSV starts
DeleteRead(r) ==
    /\ api[r].pc = "read"
    /\ api[r].kind = "DELETE"
    /\ api' = IF Len(Without(csv, api[r].id)) = Len(csv)
              THEN [api EXCEPT ![r].pc = "done", ![r].status = 404]
              ELSE [api EXCEPT ![r].pc = "open",
                               ![r].expenses = Without(csv, api[r].id)]
    /\ UNCHANGED <<pc, lines, idx, heap, transactions, currentTransaction,
                   inTransaction, pushLog, result, text, calls, uploadVars,
                   csv, uuids>>

\* fs.createWriteStream(CSV_FILE_PATH) opens the file, which truncates it
WriteOpen(r) ==
    /\ api[r].pc = "open"
    /\ csv' = <<>>
    /\ api' = [api EXCEPT ![r].pc = "write"]
    /\ UNCHANGED <<pc, lines, idx, heap, transactions, currentTransaction,
                   inTransaction, pushLog, result, text, calls, uploadVars, uuids>>

\* the rows are written, 'finish' resolves the promise, the handler responds
\* 201 (POST) or 200 (DELETE)
WriteFinish(r) ==
    /\ api[r].pc = "write"
    /\ csv' = api[r].expenses
    /\ api' = [api EXCEPT ![r].pc = "done",
                          ![r].status = IF api[r].kind = "POST" THEN 201 ELSE 200]
    /\ UNCHANGED <<pc, lines, idx, heap, transactions, currentTransaction,
                   inTransaction, pushLog, result, text, calls, uploadVars, uuids>>

NextStore ==
    \/ \E r \in ApiRequests : PostInvalid(r)
    \/ \E r \in ApiRequests : PostAccept(r)
    \/ \E r \in ApiRequests : DeleteReceive(r)
    \/ \E r \in ApiRequests : PostRead(r)
    \/ \E r \in ApiRequests : DeleteRead(r)
    \/ \E r \in ApiRequests : WriteOpen(r)
    \/ \E r \in ApiRequests : WriteFinish(r)

SpecStore == Init /\ [][NextStore]_vars

\* ------------------------------------------------------------------------
\* The input read so far, as the classifier sees it
\* ------------------------------------------------------------------------

N(m) == Normalize(lines[m])

IsDate(m)   == datePattern(N(m))
IsAmount(m) == ~datePattern(N(m)) /\ amountPattern(N(m))
IsType(m)   == ~datePattern(N(m)) /\ ~amountPattern(N(m)) /\ typePattern(N(m))
IsCont(m)   == ~datePattern(N(m)) /\ ~amountPattern(N(m)) /\ ~typePattern(N(m))

\* a draft is open when line i is reached: a date line precedes it with no
\* type line in between
OpenAt(i) ==
    \E j \in 1..(i - 1) : IsDate(j) /\ \A m \in (j + 1)..(i - 1) : ~IsType(m)

\* the date line that opened the draft which is open when line i is reached
SegStart(i) == CHOOSE j \in 1..(i - 1) :
                   IsDate(j) /\ \A m \in (j + 1)..(i - 1) : ~IsDate(m)

\* the object allocated while line j (a date or a type line) was processed
RefCreatedAt(j) == 1 + Cardinality({m \in 1..j : IsDate(m) \/ IsType(m)})

Emitted == {transactions[k] : k \in 1..Len(transactions)}

PushesAt(from, to) == {k \in 1..Len(pushLog) : pushLog[k].at \in from..to}

\* ------------------------------------------------------------------------
\* C1: every transaction in the output, while lines are processed and in the
\* returned list, has Type "DR"; none has Type "CR" or an empty Type.
\* ------------------------------------------------------------------------
C1_OnlyDebitsEmitted ==
    /\ \A k \in 1..Len(transactions) : heap[transactions[k]].Type = "DR"
    /\ \A k \in 1..Len(result) : result[k].Type = "DR"

\* a credit draft was closed and a debit was returned
C1_Witness ==
    /\ pc = "returned"
    /\ Len(result) >= 1
    /\ \E i \in 1..Len(lines) : N(i) = "CR" /\ OpenAt(i)

\* ------------------------------------------------------------------------
\* C2: every transaction in the returned list has a non-empty Date, the
\* 10-character token of the date line that opened it.
\* ------------------------------------------------------------------------
C2_EmittedDateNonEmpty ==
    \A k \in 1..Len(result) : Len(result[k].Date) = 10

\* ------------------------------------------------------------------------
\* C3: a type line processed while no draft is open is dropped: nothing is
\* appended to the output and the accumulator stays idle.
\* ------------------------------------------------------------------------
C3_IdleTypeLineDropped ==
    [][(InLoop /\ ~inTransaction /\ typePattern(normalizedLine))
          => (Output' = Output /\ ~inTransaction')]_vars

\* ------------------------------------------------------------------------
\* C4: an amount line processed while no draft is open is not buffered: the
\* Amount of an emitted transaction is empty or the token of an amount line
\* that was processed while a draft was open.
\* ------------------------------------------------------------------------
C4_IdleAmountNotBuffered ==
    \A k \in 1..Len(transactions) :
        LET a == heap[transactions[k]].Amount
        IN  \/ a = ""
            \/ \E i \in 1..idx : IsAmount(i) /\ N(i) = a /\ OpenAt(i)

\* ------------------------------------------------------------------------
\* What a draft opened by date line j holds when line i is reached
\* ------------------------------------------------------------------------

AmountLinesIn(j, i) == {m \in (j + 1)..(i - 1) : IsAmount(m)}

LastAmount(j, i) ==
    IF AmountLinesIn(j, i) = {} THEN ""
    ELSE N(CHOOSE m \in AmountLinesIn(j, i) :
                 \A n \in AmountLinesIn(j, i) : n <= m)

RECURSIVE TextUpTo(_, _)
TextUpTo(j, m) ==
    IF m = j THEN Trim(SliceFrom(N(j), 10))
    ELSE IF IsCont(m) THEN TextUpTo(j, m - 1) \o " " \o N(m)
    ELSE TextUpTo(j, m - 1)

DraftOf(j, i) ==
    [Date        |-> SubSeq(N(j), 1, 10),
     Description |-> TextUpTo(j, i - 1),
     Amount      |-> LastAmount(j, i),
     Type        |-> ""]

\* line i is "DR" and closes a draft made of a date line followed only by
\* amount and continuation lines
DebitSegmentEnd(i) == N(i) = "DR" /\ OpenAt(i)

\* ------------------------------------------------------------------------
\* C5: a date line, then amount and continuation lines, then "DR": exactly
\* one transaction is appended for the segment, by the "DR" line; its Date
\* is the date token and its Amount the token of the segment's last amount
\* line, or empty when the segment has none.
\* ------------------------------------------------------------------------
C5_DebitSegmentEmitsOnce ==
    \A i \in 1..idx :
        DebitSegmentEnd(i) =>
            /\ Cardinality(PushesAt(SegStart(i), i)) = 1
            /\ \A k \in PushesAt(SegStart(i), i) :
                  /\ pushLog[k].at = i
                  /\ k <= Len(transactions)
                  /\ heap[transactions[k]].Date = SubSeq(N(SegStart(i)), 1, 10)
                  /\ heap[transactions[k]].Amount = LastAmount(SegStart(i), i)

\* a returned debit whose segment had two different amount lines
C5_Witness ==
    /\ pc = "returned"
    /\ \E i \in 1..idx :
          /\ DebitSegmentEnd(i)
          /\ Cardinality({N(m) : m \in AmountLinesIn(SegStart(i), i)}) = 2
          /\ \E k \in 1..Len(result) : result[k].Amount = LastAmount(SegStart(i), i)

\* ------------------------------------------------------------------------
\* C6: "CR" on an open draft appends nothing, clears the draft and leaves
\* the accumulator idle; the draft is never emitted afterwards.
\* ------------------------------------------------------------------------
C6_CreditDraftDiscarded ==
    \A i \in 1..idx :
        (N(i) = "CR" /\ OpenAt(i)) =>
            /\ PushesAt(i, i) = {}
            /\ RefCreatedAt(SegStart(i)) \notin Emitted
            /\ \A k \in 1..Len(pushLog) :
                  pushLog[k].ref # RefCreatedAt(SegStart(i))
            /\ (i = idx) => /\ ~inTransaction
                            /\ heap[currentTransaction] = EmptyTransaction

\* a credit draft with a description was closed, and a later draft was emitted
C6_Witness ==
    /\ pc = "returned"
    /\ \E i \in 1..idx :
          /\ N(i) = "CR" /\ OpenAt(i)
          /\ heap[RefCreatedAt(SegStart(i))].Description # ""
          /\ \E e \in (i + 1)..idx : DebitSegmentEnd(e)

\* ------------------------------------------------------------------------
\* C7: a date line on an open draft discards that draft whatever it holds:
\* the date line appends nothing, the first draft is never emitted, and a
\* later "DR" emits a transaction built from the second date line and the
\* lines after it only.
\* ------------------------------------------------------------------------
C7_InterruptedDraftDiscarded ==
    \A i \in 1..idx :
        (IsDate(i) /\ OpenAt(i)) =>
            /\ PushesAt(i, i) = {}
            /\ RefCreatedAt(SegStart(i)) \notin Emitted
            /\ \A e \in (i + 1)..idx :
                  (DebitSegmentEnd(e) /\ SegStart(e) = i) =>
                      /\ RefCreatedAt(i) \in Emitted
                      /\ heap[RefCreatedAt(i)] =
                            [DraftOf(i, e) EXCEPT !.Type = "DR"]

\* the first draft had a description and an amount; the second was emitted
C7_Witness ==
    /\ pc = "returned"
    /\ Len(result) = 1
    /\ \E i \in 1..idx :
          /\ IsDate(i) /\ OpenAt(i)
          /\ heap[RefCreatedAt(SegStart(i))].Amount # ""
          /\ heap[RefCreatedAt(SegStart(i))].Description # ""
          /\ result[1] = heap[RefCreatedAt(i)]

\* ------------------------------------------------------------------------
\* C8: the flush after the loop appends nothing: what is returned is the
\* output as it stood when the last line had been processed, so a draft
\* still open at the end of the input is not emitted.
\* ------------------------------------------------------------------------
C8_FlushAppendsNothing ==
    [][(pc = "forEach" /\ pc' = "returned")
          => (result' = Output /\ transactions' = transactions)]_vars

\* returned with a draft still open that has a description and an amount
C8_Witness ==
    /\ pc = "returned"
    /\ inTransaction
    /\ heap[currentTransaction].Date # ""
    /\ heap[currentTransaction].Description # ""
    /\ heap[currentTransaction].Amount # ""

\* ------------------------------------------------------------------------
\* C9: the output is in input order: the k-th transaction of the output is
\* the k-th one pushed, each was pushed by a type line, and the type line of
\* an earlier transaction comes earlier in the input.
\* ------------------------------------------------------------------------
C9_OutputInInputOrder ==
    /\ Len(transactions) = Len(pushLog)
    /\ \A k \in 1..Len(pushLog) :
          /\ k <= Len(transactions) => transactions[k] = pushLog[k].ref
          /\ pushLog[k].at \in 1..Len(lines)
          /\ IsType(pushLog[k].at)
    /\ \A a, b \in 1..Len(pushLog) : a < b => pushLog[a].at < pushLog[b].at

\* two transactions with different dates were returned
C9_Witness ==
    /\ pc = "returned"
    /\ Len(result) >= 2
    /\ result[1].Date # ""
    /\ result[2].Date # ""
    /\ result[1].Date # result[2].Date

\* ------------------------------------------------------------------------
\* C10: emission is irreversible and emitted records are immutable: each
\* step leaves the output so far in place, field for field, so the output
\* before a step is a prefix of the output after it.
\* ------------------------------------------------------------------------
C10_OutputOnlyGrows ==
    [][/\ Len(Output) <= Len(Output')
       /\ \A k \in 1..Len(Output) : Output'[k] = Output[k]]_vars

\* a transaction was emitted and further lines changed the later draft
C10_Witness ==
    /\ pc = "forEach"
    /\ Len(transactions) >= 1
    /\ heap[transactions[1]].Date # ""
    /\ inTransaction
    /\ heap[currentTransaction].Amount # ""
    /\ heap[currentTransaction].Description # ""

\* ------------------------------------------------------------------------
\* C11: the Description of every emitted transaction is trimmed: it neither
\* begins nor ends with white space.
\* ------------------------------------------------------------------------
C11_DescriptionTrimmed ==
    \A k \in 1..Len(result) : result[k].Description = Trim(result[k].Description)

\* ------------------------------------------------------------------------
\* C12: a raw line that is empty after normalisation changes nothing: the
\* draft, the idle/open state and the output are as before.
\* ------------------------------------------------------------------------
C12_EmptyLineIsNoOp ==
    [][(InLoop /\ normalizedLine = "")
          => /\ heap'[currentTransaction'] = heap[currentTransaction]
             /\ inTransaction' = inTransaction
             /\ Output' = Output]_vars

\* ------------------------------------------------------------------------
\* C16: when the input holds no date line and no type line, the returned
\* output is empty.
\* ------------------------------------------------------------------------
C16_NoDateNoTypeNoOutput ==
    (pc = "returned" /\ \A m \in 1..Len(lines) : ~IsDate(m) /\ ~IsType(m))
        => result = <<>>

\* returned from an input made of amount and continuation lines
C16_Witness ==
    /\ pc = "returned"
    /\ result = <<>>
    /\ \E a, c \in 1..Len(lines) : IsAmount(a) /\ IsCont(c) /\ N(c) # ""
    /\ \A m \in 1..Len(lines) : ~IsDate(m) /\ ~IsType(m)

\* ------------------------------------------------------------------------
\* C17: the Description of an emitted transaction is the trimmed text after
\* the date token of its date line, followed by one space and the text of
\* each continuation line up to the closing type line, in input order;
\* a continuation line read while idle reaches no emitted description and
\* leaves the accumulator idle.
\* ------------------------------------------------------------------------
C17_DescriptionAccumulated ==
    /\ \A k \in 1..Len(pushLog) :
          LET r  == pushLog[k].ref
              at == pushLog[k].at
          IN  IF at <= Len(lines) /\ OpenAt(at)
              THEN /\ r = RefCreatedAt(SegStart(at))
                   /\ heap[r].Description = TextUpTo(SegStart(at), at - 1)
              ELSE heap[r].Description = ""
    /\ (pc = "forEach" /\ idx >= 1 /\ IsCont(idx) /\ ~OpenAt(idx))
          => /\ ~inTransaction
             /\ heap[currentTransaction].Date = ""
             /\ heap[currentTransaction].Description = ""

\* a continuation line was read while idle, another inside the draft that
\* was then emitted
C17_Witness ==
    /\ pc = "returned"
    /\ \E c \in 1..Len(lines) : IsCont(c) /\ N(c) # "" /\ ~OpenAt(c)
    /\ \E e \in 1..Len(lines) :
          /\ DebitSegmentEnd(e)
          /\ \E c \in (SegStart(e) + 1)..(e - 1) : IsCont(c) /\ N(c) # ""
          /\ \E k \in 1..Len(result) :
                result[k].Description = TextUpTo(SegStart(e), e - 1)

\* ------------------------------------------------------------------------
\* C20: no draft is emitted twice: the output never holds the same object
\* twice and is never longer than the number of "DR" lines read so far.
\* ------------------------------------------------------------------------
C20_NoDoubleEmission ==
    /\ \A a, b \in 1..Len(transactions) :
          a # b => transactions[a] # transactions[b]
    /\ Len(transactions) <= Cardinality({m \in 1..idx : N(m) = "DR"})
    /\ Len(result) <= Cardinality({m \in 1..idx : N(m) = "DR"})

\* a draft was emitted by "DR", then a date line and the end of the input
\* followed
C20_Witness ==
    /\ pc = "returned"
    /\ Len(result) = 1
    /\ idx >= 3
    /\ DebitSegmentEnd(idx - 1)
    /\ IsDate(idx)

\* ------------------------------------------------------------------------
\* C13: extraction is deterministic and keeps nothing from one call to the
\* next: two calls on the same text return the same output, whatever was
\* extracted in between.
\* ------------------------------------------------------------------------
C13_SameTextSameOutput ==
    \A a, b \in 1..Len(calls) :
        (/\ calls[a].outcome = "returned"
         /\ calls[b].outcome = "returned"
         /\ calls[a].text = calls[b].text)
            => calls[a].result = calls[b].result

\* the same text extracted first and third, another text in between, each
\* call returning a transaction
C13_Witness ==
    /\ Len(calls) = 3
    /\ \A k \in 1..3 : calls[k].outcome = "returned" /\ calls[k].result # <<>>
    /\ calls[1].text = calls[3].text
    /\ calls[2].text # calls[1].text
    /\ calls[2].result # calls[1].result

\* ------------------------------------------------------------------------
\* C14: with two upload requests in flight, each successful response holds
\* the transactions extracted from the request's own document, whatever the
\* file names.
\* ------------------------------------------------------------------------
C14_ResponseFromOwnDocument ==
    \A r \in UploadRequests :
        (upload[r].pc = "done" /\ upload[r].status = 200) =>
            \E k \in 1..Len(calls) :
                /\ calls[k].outcome = "returned"
                /\ calls[k].text = upload[r].doc
                /\ calls[k].result = upload[r].body

\* ------------------------------------------------------------------------
\* C15: when pdf(dataBuffer) rejects, extractBankStatementData throws that
\* same error and returns no list, the accumulator does not run, and the
\* upload request ends with the error response, not with transactions.
\* ------------------------------------------------------------------------
C15_ExtractionFailurePropagates ==
    /\ \A k \in 1..Len(calls) :
          calls[k].outcome = "thrown" =>
              calls[k].error = calls[k].cause /\ calls[k].result = <<>>
    /\ \A r \in UploadRequests :
          upload[r].cause # "" =>
              /\ upload[r].pc \in {"extract", "done"}
              /\ upload[r].pc = "extract" =>
                    /\ pc = "thrown"
                    /\ calls[Len(calls)].outcome = "thrown"
                    /\ calls[Len(calls)].error = upload[r].cause
              /\ upload[r].pc = "done" =>
                    /\ upload[r].status = 500
                    /\ upload[r].message = "Error processing PDF."
                    /\ upload[r].body = <<>>

\* one upload ended with the error response after pdf rejected, the other
\* with its transactions
C15_Witness ==
    \E r, q \in UploadRequests :
        /\ upload[r].pc = "done" /\ upload[r].cause # "" /\ upload[r].status = 500
        /\ upload[q].pc = "done" /\ upload[q].status = 200 /\ upload[q].body # <<>>

\* ------------------------------------------------------------------------
\* The expense store once no request is in flight
\* ------------------------------------------------------------------------

StoredIds == {csv[k].id : k \in 1..Len(csv)}

NoneInFlight == \A r \in ApiRequests : api[r].pc \in {"new", "done"}

Added(r) == api[r].pc = "done" /\ api[r].kind = "POST" /\ api[r].status = 201

Deleted(r) == api[r].pc = "done" /\ api[r].kind = "DELETE" /\ api[r].status = 200

\* ------------------------------------------------------------------------
\* C18: no add is lost: when two POST /api/expenses have both responded
\* 201 and no request is in flight, the store holds both new expenses
\* (unless a DELETE that responded 200 removed one).
\* ------------------------------------------------------------------------
C18_NoLostAdd ==
    NoneInFlight =>
        \A p, q \in ApiRequests :
            (/\ p # q
             /\ Added(p)
             /\ Added(q)
             /\ \A d \in ApiRequests :
                   Deleted(d) => api[d].id \notin {api[p].id, api[q].id})
                => {api[p].id, api[q].id} \subseteq StoredIds

\* ------------------------------------------------------------------------
\* C19: a deleted expense stays deleted: when a DELETE has responded 200, a
\* POST has completed and no request is in flight, the store holds no
\* expense with the deleted id.
\* ------------------------------------------------------------------------
C19_DeletedStaysDeleted ==
    NoneInFlight =>
        \A d, p \in ApiRequests :
            (Deleted(d) /\ Added(p)) => api[d].id \notin StoredIds

====
